---- MODULE Spec2Model ----
(***************************************************************************)
(* Graph colouring by simulated annealing (src/graph.py): random graph     *)
(* generation, the cost of a colouring, the single-node neighbour move,    *)
(* one annealing run, and the outer search over colour budgets.            *)
(*                                                                         *)
(* Reals are modelled exactly as rationals: a probability is a numerator   *)
(* over ProbDen, a temperature or cooling rate is a pair <<num, den>> with *)
(* den > 0.  Every call of the random module is a nondeterministic choice. *)
(***************************************************************************)
EXTENDS Integers, Sequences, FiniteSets

(* ---------------------------------------------------------------- bounds *)

\* Largest n_nodes the caller passes.
MaxNodes == 3

\* Largest n_iterations the caller passes.
MaxIter == 2

\* random.random() is drawn from the grid {0/ProbDen, ..., (ProbDen-1)/ProbDen};
\* edge_probability is a numerator over ProbDen.
ProbDen == 2

\* The search loop is unbounded in the code; the model follows it up to this
\* many colours more than G has nodes.
ExtraColors == 1

\* n_iterations of the K4 scenario.
K4Iter == 1

\* Clicks on "Run Algorithm" followed in the input form.
MaxClicks == 2

(* ------------------------------------------------------------- constants *)

\* math.exp(x) raises OverflowError when x exceeds ln(DBL_MAX) = 709.78...
ExpOverflowArg == 709

\* The form's default initial temperature.
DefaultInitialTemp == 10

\* The form's default cooling rate, 0.995 = DefaultCoolingNum / DefaultCoolingDen.
DefaultCoolingNum == 995

DefaultCoolingDen == 1000

(* ---------------------------------------------------------------- inputs *)

NodeCounts == -1 .. MaxNodes

EdgeProbabilities == -1 .. (ProbDen + 1)

InitialTemps == {0, 1}

CoolingRates == {<<-1, 1000>>, <<-1, 1>>, <<0, 1>>, <<1, 2>>}

IterationCounts == -1 .. MaxIter

\* The outcomes of random.random(), as numerators over ProbDen: [0, 1).
UniformDraws == 0 .. (ProbDen - 1)

(* ----------------------------------------------------------------- state *)

VARIABLES
    pc,                \* where the program is
    n_nodes,           \* generate_random_graph's argument
    edge_probability,  \* generate_random_graph's argument (numerator over ProbDen)
    gi, gj,            \* generate_random_graph's loop variables i, j
    G_nodes, G_edges,  \* the networkx graph G: G.nodes(), G.edges() as <<i, j>>, i < j
    initial_temp,      \* find_optimal_coloring's arguments
    cooling_rate,
    n_iterations,
    n_colors,          \* find_optimal_coloring's colour budget
    current_solution,  \* simulated_annealing's locals
    current_cost,
    best_solution,
    best_cost,
    temperature,
    cost_history,
    iter,              \* completed iterations of the for loop of simulated_annealing
    runs,              \* the calls of simulated_annealing made by find_optimal_coloring
    error,             \* the exception that ended the call, "none" if none
    fields,            \* the texts of the form's five entries
    result_text,       \* what the form's result area shows
    canvas,            \* the widgets of the form's canvas_frame
    clicks             \* clicks on "Run Algorithm" so far

vars == <<pc, n_nodes, edge_probability, gi, gj, G_nodes, G_edges, initial_temp,
          cooling_rate, n_iterations, n_colors, current_solution, current_cost,
          best_solution, best_cost, temperature, cost_history, iter, runs, error,
          fields, result_text, canvas, clicks>>

genVars == <<n_nodes, edge_probability, gi, gj, G_nodes, G_edges>>

paramVars == <<initial_temp, cooling_rate, n_iterations>>

saVars == <<current_solution, current_cost, best_solution, best_cost, temperature,
            cost_history, iter>>

formVars == <<fields, result_text, canvas, clicks>>

(* --------------------------------------------------------- pure functions *)

\* An empty dict.
EmptyColoring == [node \in {} |-> 0]

\* random.random() < edge_probability, with the draw r / ProbDen.
DrawBelow_OrEqual(r, p) == r <= p

DrawBelow(r, p) == r < p

\* cost(G, coloring): sum(1 for u, v in G.edges() if coloring[u] == coloring[v]),
\* one edge of G.edges() after the other.
cost_DifferentColors(edges, coloring) ==
    Cardinality({e \in edges : coloring[e[1]] # coloring[e[2]]})

RECURSIVE cost(_, _)
cost(edges, coloring) ==
    IF edges = {}
    THEN 0
    ELSE LET e == CHOOSE x \in edges : TRUE
         IN  (IF coloring[e[1]] = coloring[e[2]] THEN 1 ELSE 0)
                + cost(edges \ {e}, coloring)

\* neighbor(coloring, n_colors) with random.choice = node, random.randint = color:
\* a copy of the colouring with that one node reassigned.
neighbor_AllNodes(coloring, node, color) == [x \in DOMAIN coloring |-> color]

neighbor(coloring, node, color) == [coloring EXCEPT ![node] = color]

\* The dict the caller passed to neighbor, after the call: line 24 copies it and
\* line 26 writes to the copy, so it is as it was.
InputAfterNeighbor_NoCopy(coloring, node, color) ==
    [coloring EXCEPT ![node] = color]

InputAfterNeighbor(coloring, node, color) == coloring

\* random.randint(0, n_colors - 1): the colours of a budget of n_colors.
ColorRange_OffByOne(k) == 0 .. k

ColorRange(k) == 0 .. (k - 1)

\* initial_solution(G, n_colors): every dict over G.nodes() with such colours.
InitialSolutions(nodes, k) == [nodes -> ColorRange(k)]

\* cost_history = [current_cost].
InitialHistory_Empty(c) == << >>

InitialHistory_Zero(c) == <<0>>

InitialHistory(c) == <<c>>

\* if current_cost < best_cost.
BestImproves_OrEqual(c, best) == c <= best

BestImproves(c, best) == c < best

RECURSIVE GCD(_, _)
GCD(a, b) == IF b = 0 THEN a ELSE GCD(b, a % b)

Abs(a) == IF a < 0 THEN 0 - a ELSE a

\* The rational num / den (den > 0) in lowest terms.
Rational(num, den) ==
    LET g == GCD(Abs(num), den) IN <<num \div g, den \div g>>

RECURSIVE Power(_, _)
Power(base, exponent) ==
    IF exponent = 0 THEN 1 ELSE base * Power(base, exponent - 1)

\* temperature *= cooling_rate.
Cooled_Unchanged(temp, rate) == temp

Cooled(temp, rate) == Rational(temp[1] * rate[1], temp[2] * rate[2])

\* (current_cost - new_cost) / temperature raises ZeroDivisionError.
DividesByZero(temp) == temp[1] = 0

\* math.exp(delta / temperature) raises OverflowError: delta / temperature >
\* ExpOverflowArg, which needs delta < 0 and temperature < 0.  With a = -delta
\* and temperature = -b / d (a, b, d > 0) that is a * d > ExpOverflowArg * b.
ExpOverflows(delta, temp) ==
    /\ delta < 0
    /\ temp[1] < 0
    /\ temp[2] > (ExpOverflowArg * (0 - temp[1])) \div (0 - delta)

\* random.random() < math.exp(delta / temperature) for delta <= 0 and a
\* temperature that is not 0.  The exponent is >= 0, so exp >= 1 and every draw
\* of [0, 1) is below it, when delta = 0 or temperature < 0; otherwise exp lies
\* in [0, 1) and the draw decides.
MetropolisAccepts_DrawDecidesTies(delta, temp, drawIsBelow) ==
    IF temp[1] < 0 THEN TRUE ELSE drawIsBelow

MetropolisAccepts(delta, temp, drawIsBelow) ==
    IF delta = 0 \/ temp[1] < 0 THEN TRUE ELSE drawIsBelow

\* The condition of line 40, for a candidate that raises no exception.
Accepts(new_cost, cur_cost, temp, drawIsBelow) ==
    \/ new_cost < cur_cost
    \/ MetropolisAccepts(cur_cost - new_cost, temp, drawIsBelow)

\* The candidate makes line 40 raise: the short-circuit is not taken and the
\* division or the exponential fails.
Raises(new_cost, cur_cost, temp) ==
    /\ ~(new_cost < cur_cost)
    /\ \/ DividesByZero(temp)
       \/ ExpOverflows(cur_cost - new_cost, temp)

\* for _ in range(n_iterations): the loop has another iteration to run.
LoopRuns_Inclusive == iter <= n_iterations

LoopRuns == iter < n_iterations

\* while True of find_optimal_coloring, followed as far as the model goes.
ColorCap == Cardinality(G_nodes) + ExtraColors

(* ------------------------------------------------- the form's conversions *)

\* A text is the sequence of its characters.
DigitChars == <<"0", "1", "2", "3", "4", "5", "6", "7", "8", "9">>

IsDigit(c) == \E i \in DOMAIN DigitChars : DigitChars[i] = c

DigitValue(c) == (CHOOSE i \in DOMAIN DigitChars : DigitChars[i] = c) - 1

RECURSIVE DigitsValue(_)
DigitsValue(digits) ==
    IF digits = << >>
    THEN 0
    ELSE 10 * DigitsValue(SubSeq(digits, 1, Len(digits) - 1))
            + DigitValue(digits[Len(digits)])

\* A text without its leading sign, and the sign.
Unsigned(text) ==
    IF text # << >> /\ Head(text) \in {"-", "+"} THEN Tail(text) ELSE text

Sign(text) == IF text # << >> /\ Head(text) = "-" THEN -1 ELSE 1

\* int(text) returns for an optional sign and one or more digits, and raises
\* ValueError for the other texts of the model.
IntParses(text) ==
    LET body == Unsigned(text)
    IN  body # << >> /\ \A i \in DOMAIN body : IsDigit(body[i])

IntValue(text) == Sign(text) * DigitsValue(Unsigned(text))

\* float(text) returns for an optional sign and digits with at most one point,
\* at least one digit in all, and raises ValueError for the other texts of the
\* model (which have no exponent, "inf" or "nan").
Points(body) == {i \in DOMAIN body : body[i] = "."}

FloatParses(text) ==
    LET body == Unsigned(text)
    IN  /\ Cardinality(Points(body)) <= 1
        /\ \A i \in (DOMAIN body) \ Points(body) : IsDigit(body[i])
        /\ \E i \in DOMAIN body : IsDigit(body[i])

FloatValue(text) ==
    LET body == Unsigned(text)
        decimals == IF Points(body) = {}
                    THEN 0
                    ELSE Len(body) - (CHOOSE i \in Points(body) : TRUE)
    IN  Rational(Sign(text) * DigitsValue(SelectSeq(body, IsDigit)),
                 Power(10, decimals))

\* The parsed real in the units of edge_probability (numerator over ProbDen)
\* and of initial_temp (whole degrees).
ToProbability(q) == (q[1] * ProbDen) \div q[2]

ToTemperature(q) == q[1] \div q[2]

\* create_widgets: the texts inserted into the five entries.
DefaultTexts ==
    [n_nodes          |-> <<"2", "0">>,
     edge_probability |-> <<"0", ".", "3">>,
     initial_temp     |-> <<"1", "0">>,
     cooling_rate     |-> <<"0", ".", "9", "9", "5">>,
     n_iterations     |-> <<"1", "0", "0", "0">>]

\* The texts typed into the entries before a click.
TypedTexts ==
    [n_nodes          : {<<"2">>, <<"2", ".", "0">>},
     edge_probability : {<<"1", ".", "0">>, <<"0">>, <<"x">>},
     initial_temp     : {<<"1">>, << >>},
     cooling_rate     : {<<"0", ".", "5">>, <<"0", ".", "5", ".">>},
     n_iterations     : {<<"1">>, <<"1", "x">>}]

\* Lines 125-129 all return.
FormParses(texts) ==
    /\ IntParses(texts.n_nodes)
    /\ FloatParses(texts.edge_probability)
    /\ FloatParses(texts.initial_temp)
    /\ FloatParses(texts.cooling_rate)
    /\ IntParses(texts.n_iterations)

\* The ValueError of the first of lines 125-129 that raises: the conversion
\* and the text it was given.
ValueErrorOf(texts) ==
    IF ~IntParses(texts.n_nodes) THEN <<"int", texts.n_nodes>>
    ELSE IF ~FloatParses(texts.edge_probability)
         THEN <<"float", texts.edge_probability>>
    ELSE IF ~FloatParses(texts.initial_temp)
         THEN <<"float", texts.initial_temp>>
    ELSE IF ~FloatParses(texts.cooling_rate)
         THEN <<"float", texts.cooling_rate>>
    ELSE <<"int", texts.n_iterations>>

\* The result area: f"Error: {str(e)}\nPlease check your inputs.", or the
\* result of lines 134-137, or nothing yet.
EmptyText == [head |-> "", detail |-> << >>, tail |-> ""]

ErrorText(e) ==
    [head |-> "Error: ", detail |-> e, tail |-> "Please check your inputs."]

ResultText(k, coloring) ==
    [head |-> "Optimal solution found using", detail |-> <<k, coloring>>,
     tail |-> "Coloring:"]

\* canvas_frame's children after the except branch: lines 144-145 were not
\* reached, so they are as they were.
CanvasAfterError_Cleared(widgets) == << >>

CanvasAfterError(widgets) == widgets

(* ------------------------------------------------------------------ Init *)

InitWith(nodeCounts, probabilities, temps, rates, iterations) ==
    /\ pc = "gen"
    /\ n_nodes \in nodeCounts
    /\ edge_probability \in probabilities
    /\ gi = 0
    /\ gj = 1
    /\ G_nodes = {}
    /\ G_edges = {}
    /\ initial_temp \in temps
    /\ cooling_rate \in rates
    /\ n_iterations \in iterations
    /\ n_colors = 0
    /\ current_solution = EmptyColoring
    /\ current_cost = 0
    /\ best_solution = EmptyColoring
    /\ best_cost = 0
    /\ temperature = <<0, 1>>
    /\ cost_history = << >>
    /\ iter = 0
    /\ runs = << >>
    /\ error = "none"
    /\ fields = DefaultTexts
    /\ result_text = EmptyText
    /\ canvas = << >>
    /\ clicks = 0

Init == InitWith(NodeCounts, EdgeProbabilities, InitialTemps, CoolingRates,
                 IterationCounts)

(* --------------------------------------------------------------- actions *)

\* generate_random_graph, one pass of the inner loop: the pair (i, j), i < j.
GenEdge ==
    /\ pc = "gen"
    /\ gj < n_nodes
    /\ \E r \in UniformDraws :
         IF DrawBelow(r, edge_probability)
         THEN /\ G_nodes' = G_nodes \cup {gi, gj}
              /\ G_edges' = G_edges \cup {<<gi, gj>>}
         ELSE UNCHANGED <<G_nodes, G_edges>>
    /\ IF gj + 1 < n_nodes
       THEN /\ gi' = gi
            /\ gj' = gj + 1
       ELSE /\ gi' = gi + 1
            /\ gj' = gi + 2
    /\ UNCHANGED formVars
    /\ UNCHANGED <<pc, n_nodes, edge_probability, paramVars, n_colors, saVars, runs,
                   error>>

\* generate_random_graph returns G: no pair (i, j) is left.
GenReturn ==
    /\ pc = "gen"
    /\ ~(gj < n_nodes)
    /\ pc' = "gen_done"
    /\ UNCHANGED formVars
    /\ UNCHANGED <<genVars, paramVars, n_colors, saVars, runs, error>>

\* find_optimal_coloring is called on G: n_colors = 1, and the first call of
\* simulated_annealing.
FindCall ==
    /\ pc = "gen_done"
    /\ n_colors' = 1
    /\ pc' = "sa_init"
    /\ UNCHANGED formVars
    /\ UNCHANGED <<genVars, paramVars, saVars, runs, error>>

\* simulated_annealing, lines 30-35: the random initial colouring.
SAInit ==
    /\ pc = "sa_init"
    /\ \E coloring \in InitialSolutions(G_nodes, n_colors) :
         /\ current_solution' = coloring
         /\ current_cost' = cost(G_edges, coloring)
         /\ best_solution' = coloring
         /\ best_cost' = cost(G_edges, coloring)
    /\ temperature' = Rational(initial_temp, 1)
    /\ cost_history' = InitialHistory(current_cost')
    /\ iter' = 0
    /\ runs' = Append(runs, [budget |-> n_colors, result |-> "running"])
    /\ pc' = "sa_loop"
    /\ UNCHANGED formVars
    /\ UNCHANGED <<genVars, paramVars, n_colors, error>>

\* One iteration of the loop of simulated_annealing that raises nothing, with
\* random.choice = node, random.randint = color and the outcome of
\* random.random() < math.exp(...) = drawIsBelow.
SAIterateWith(node, color, drawIsBelow) ==
    /\ pc = "sa_loop"
    /\ LoopRuns
    /\ LET new_solution == neighbor(current_solution, node, color)
           new_cost == cost(G_edges, new_solution)
       IN  /\ ~Raises(new_cost, current_cost, temperature)
           /\ IF Accepts(new_cost, current_cost, temperature, drawIsBelow)
              THEN /\ current_solution' = new_solution
                   /\ current_cost' = new_cost
                   /\ IF BestImproves(new_cost, best_cost)
                      THEN /\ best_solution' = new_solution
                           /\ best_cost' = new_cost
                      ELSE UNCHANGED <<best_solution, best_cost>>
              ELSE /\ current_solution' =
                          InputAfterNeighbor(current_solution, node, color)
                   /\ UNCHANGED <<current_cost, best_solution, best_cost>>
    /\ cost_history' = Append(cost_history, current_cost')
    /\ temperature' = Cooled(temperature, cooling_rate)
    /\ iter' = iter + 1
    /\ UNCHANGED formVars
    /\ UNCHANGED <<pc, genVars, paramVars, n_colors, runs, error>>

SAIterate ==
    \E node \in DOMAIN current_solution, color \in ColorRange(n_colors),
       drawIsBelow \in BOOLEAN :
        SAIterateWith(node, color, drawIsBelow)

\* neighbor on an empty colouring: random.choice([]) raises IndexError.
SAEmptyChoice ==
    /\ pc = "sa_loop"
    /\ LoopRuns
    /\ DOMAIN current_solution = {}
    /\ pc' = "raised"
    /\ error' = "IndexError"
    /\ UNCHANGED formVars
    /\ UNCHANGED <<genVars, paramVars, n_colors, saVars, runs>>

\* Line 40 divides by a temperature of 0 for a candidate that does not improve.
SAZeroDivision ==
    /\ pc = "sa_loop"
    /\ LoopRuns
    /\ \E node \in DOMAIN current_solution, color \in ColorRange(n_colors) :
         LET new_cost == cost(G_edges, neighbor(current_solution, node, color))
         IN  /\ ~(new_cost < current_cost)
             /\ DividesByZero(temperature)
    /\ pc' = "raised"
    /\ error' = "ZeroDivisionError"
    /\ UNCHANGED formVars
    /\ UNCHANGED <<genVars, paramVars, n_colors, saVars, runs>>

\* Line 40 overflows math.exp for a worsening candidate at a small negative
\* temperature.
SAExpOverflow ==
    /\ pc = "sa_loop"
    /\ LoopRuns
    /\ \E node \in DOMAIN current_solution, color \in ColorRange(n_colors) :
         LET new_cost == cost(G_edges, neighbor(current_solution, node, color))
         IN  /\ ~(new_cost < current_cost)
             /\ ~DividesByZero(temperature)
             /\ ExpOverflows(current_cost - new_cost, temperature)
    /\ pc' = "raised"
    /\ error' = "OverflowError"
    /\ UNCHANGED formVars
    /\ UNCHANGED <<genVars, paramVars, n_colors, saVars, runs>>

\* n_colors += 1.
NextBudget_Skips(k) == k + 2

NextBudget(k) == k + 1

\* The last call of simulated_annealing has returned: its best_cost is noted.
Ended(log, final_best_cost) ==
    [log EXCEPT ![Len(log)].result =
        IF final_best_cost = 0 THEN "zero" ELSE "nonzero"]

\* if best_cost == 0.
FindReturnTest_AtMostOne == best_cost <= 1

FindReturnTest == best_cost = 0

\* simulated_annealing returns with best_cost == 0 and find_optimal_coloring
\* returns (best_solution, n_colors, cost_history).

FindReturn ==
    /\ pc = "sa_loop"
    /\ ~LoopRuns
    /\ FindReturnTest
    /\ runs' = Ended(runs, best_cost)
    /\ pc' = "returned"
    /\ UNCHANGED formVars
    /\ UNCHANGED <<genVars, paramVars, n_colors, saVars, error>>

\* simulated_annealing returns with best_cost != 0: n_colors += 1 and the next
\* call of simulated_annealing, whose locals are fresh.
FindRetry ==
    /\ pc = "sa_loop"
    /\ ~LoopRuns
    /\ ~FindReturnTest
    /\ n_colors < ColorCap
    /\ n_colors' = NextBudget(n_colors)
    /\ runs' = Ended(runs, best_cost)
    /\ current_solution' = EmptyColoring
    /\ current_cost' = 0
    /\ best_solution' = EmptyColoring
    /\ best_cost' = 0
    /\ temperature' = <<0, 1>>
    /\ cost_history' = << >>
    /\ iter' = 0
    /\ pc' = "sa_init"
    /\ UNCHANGED formVars
    /\ UNCHANGED <<genVars, paramVars, error>>

Next ==
    \/ GenEdge
    \/ GenReturn
    \/ FindCall
    \/ SAInit
    \/ SAIterate
    \/ SAEmptyChoice
    \/ SAZeroDivision
    \/ SAExpOverflow
    \/ FindReturn
    \/ FindRetry

Spec == Init /\ [][Next]_vars

(* ------------------------------------------------------ the K4 scenario *)

\* generate_random_graph(4, 1) is the complete graph on 4 nodes; the search
\* runs on it with the form's default temperature and cooling rate.
InitK4 == InitWith({4}, {ProbDen}, {DefaultInitialTemp},
                   {<<DefaultCoolingNum, DefaultCoolingDen>>}, {K4Iter})

NextK4 ==
    \/ GenEdge
    \/ GenReturn
    \/ FindCall
    \/ SAInit
    \/ SAIterate
    \/ FindReturn
    \/ FindRetry

SpecK4 == InitK4 /\ [][NextK4]_vars

(* ------------------------------------- generate_random_graph on its own *)

NextGen ==
    \/ GenEdge
    \/ GenReturn

SpecGen == Init /\ [][NextGen]_vars

(* --------------------------------------------------------- the input form *)

\* GraphColoringApp(): the form as create_widgets leaves it, no call running.
InitForm ==
    /\ pc = "idle"
    /\ n_nodes = 0
    /\ edge_probability = 0
    /\ gi = 0
    /\ gj = 1
    /\ G_nodes = {}
    /\ G_edges = {}
    /\ initial_temp = 0
    /\ cooling_rate = <<0, 1>>
    /\ n_iterations = 0
    /\ n_colors = 0
    /\ current_solution = EmptyColoring
    /\ current_cost = 0
    /\ best_solution = EmptyColoring
    /\ best_cost = 0
    /\ temperature = <<0, 1>>
    /\ cost_history = << >>
    /\ iter = 0
    /\ runs = << >>
    /\ error = "none"
    /\ fields = DefaultTexts
    /\ result_text = EmptyText
    /\ canvas = << >>
    /\ clicks = 0

\* run_algorithm, lines 125-131: the five texts parse and
\* generate_random_graph is called with the parsed values.
RunAlgorithmCall ==
    /\ pc = "idle"
    /\ clicks < MaxClicks
    /\ \E texts \in TypedTexts :
          /\ FormParses(texts)
          /\ fields' = texts
          /\ n_nodes' = IntValue(texts.n_nodes)
          /\ edge_probability' = ToProbability(FloatValue(texts.edge_probability))
          /\ initial_temp' = ToTemperature(FloatValue(texts.initial_temp))
          /\ cooling_rate' = FloatValue(texts.cooling_rate)
          /\ n_iterations' = IntValue(texts.n_iterations)
    /\ clicks' = clicks + 1
    /\ gi' = 0
    /\ gj' = 1
    /\ G_nodes' = {}
    /\ G_edges' = {}
    /\ n_colors' = 0
    /\ current_solution' = EmptyColoring
    /\ current_cost' = 0
    /\ best_solution' = EmptyColoring
    /\ best_cost' = 0
    /\ temperature' = <<0, 1>>
    /\ cost_history' = << >>
    /\ iter' = 0
    /\ runs' = << >>
    /\ error' = "none"
    /\ pc' = "gen"
    /\ UNCHANGED <<result_text, canvas>>

\* run_algorithm, lines 125-129 and 151-153: one of the conversions raises
\* ValueError, and the except branch writes the error into the result area.
RunAlgorithmValueError ==
    /\ pc = "idle"
    /\ clicks < MaxClicks
    /\ \E texts \in TypedTexts :
          /\ ~FormParses(texts)
          /\ fields' = texts
          /\ result_text' = ErrorText(ValueErrorOf(texts))
    /\ clicks' = clicks + 1
    /\ canvas' = CanvasAfterError(canvas)
    /\ UNCHANGED <<pc, genVars, paramVars, n_colors, saVars, runs, error>>

\* run_algorithm, lines 134-149: find_optimal_coloring has returned; the
\* result is written, the old canvas widgets are destroyed and the new figure
\* is packed.
RunAlgorithmShow ==
    /\ pc = "returned"
    /\ result_text' = ResultText(n_colors, best_solution)
    /\ canvas' = <<[G |-> G_edges, coloring |-> best_solution,
                    history |-> cost_history]>>
    /\ pc' = "idle"
    /\ UNCHANGED <<genVars, paramVars, n_colors, saVars, runs, error, fields,
                   clicks>>

\* run_algorithm, line 151: an exception that is no ValueError is not caught;
\* it leaves run_algorithm, and the form is as it was.
RunAlgorithmPropagate ==
    /\ pc = "raised"
    /\ pc' = "idle"
    /\ UNCHANGED <<genVars, paramVars, n_colors, saVars, runs, error, formVars>>

NextForm ==
    \/ RunAlgorithmCall
    \/ RunAlgorithmValueError
    \/ GenEdge
    \/ GenReturn
    \/ FindCall
    \/ SAInit
    \/ SAIterate
    \/ SAEmptyChoice
    \/ FindReturn
    \/ FindRetry
    \/ RunAlgorithmShow
    \/ RunAlgorithmPropagate

SpecForm == InitForm /\ [][NextForm]_vars

(* ---------------------------------------------------------------- claims *)

\* The unordered pairs {i, j}, i < j, of the nodes 0 .. n-1.
AllPairs(n) == {e \in (0 .. (n - 1)) \X (0 .. (n - 1)) : e[1] < e[2]}

\* A call of find_optimal_coloring has been made on G.
SearchCalled == pc \in {"sa_init", "sa_loop", "returned", "raised"}

\* A call of simulated_annealing has run its lines 30-35.
InRun == pc \in {"sa_loop", "returned", "raised"}

\* The arguments the specification allows: n_nodes >= 0, 0 <= edge_probability
\* <= 1, initial_temp > 0, cooling_rate > 0, n_iterations >= 0.
ValidInputs ==
    /\ n_nodes >= 0
    /\ edge_probability >= 0
    /\ edge_probability <= ProbDen
    /\ initial_temp > 0
    /\ cooling_rate[1] > 0
    /\ n_iterations >= 0

\* C1: whenever find_optimal_coloring returns (coloring, n_colors, cost_history),
\* the colouring is defined on exactly the nodes of G, every colour lies in
\* [0, n_colors), and no edge of G joins two nodes of equal colour.
C1_ReturnedColoringIsProper ==
    pc = "returned" =>
        /\ DOMAIN best_solution = G_nodes
        /\ \A node \in G_nodes :
             best_solution[node] >= 0 /\ best_solution[node] < n_colors
        /\ \A e \in G_edges : best_solution[e[1]] # best_solution[e[2]]

\* C1 witness: the search returned a colouring of the triangle with 3 colours.
C1_Witness ==
    /\ pc = "returned"
    /\ Cardinality(G_edges) = 3
    /\ n_colors = 3

\* C2: on a graph with zero edges, for valid parameters, the search raises no
\* exception, never goes beyond n_colors = 1, and its run has best cost 0.
C2_EdgelessGraphReturnsOneColor ==
    (SearchCalled /\ G_edges = {} /\ ValidInputs)
    => /\ error = "none"
       /\ n_colors = 1
       /\ (InRun => best_cost = 0)

\* C3: the graph returned by generate_random_graph(n_nodes, edge_probability),
\* n_nodes >= 0 and 0 <= edge_probability <= 1, has the node set
\* {0, ..., n_nodes-1} and its edges are pairs of distinct nodes of that set.
C3_GeneratedGraphHasAllNodes ==
    (/\ pc = "gen_done"
     /\ n_nodes >= 0
     /\ edge_probability >= 0
     /\ edge_probability <= ProbDen)
    => /\ G_nodes = 0 .. (n_nodes - 1)
       /\ G_edges \subseteq AllPairs(n_nodes)

\* C4: find_optimal_coloring never starts an annealing attempt with n_colors
\* greater than the number of nodes of the graph (stated for valid arguments and
\* a graph that has nodes).
C4_ColorBudgetNeverExceedsNodeCount ==
    (SearchCalled /\ G_nodes # {} /\ ValidInputs)
    => n_colors <= Cardinality(G_nodes)

\* C5: an invalid numeric input is rejected before anything runs: with an invalid
\* n_nodes or edge_probability generate_random_graph builds nothing, and with an
\* invalid initial_temp, cooling_rate or n_iterations no annealing attempt starts.
C5_InvalidInputsAreRejected ==
    /\ (n_nodes < 0 \/ edge_probability < 0 \/ edge_probability > ProbDen)
          => (pc = "gen" /\ gi = 0 /\ gj = 1)
    /\ (initial_temp <= 0 \/ cooling_rate[1] <= 0 \/ n_iterations < 0)
          => pc \in {"gen", "gen_done"}

\* C6: after k completed iterations of a run cost_history has k + 1 entries and
\* its last entry is current_cost; for n_iterations >= 0 a run that has ended,
\* and so the history find_optimal_coloring returns, has n_iterations + 1 entries.
C6_HistoryLengthAndLast ==
    InRun =>
        /\ Len(cost_history) = iter + 1
        /\ cost_history[Len(cost_history)] = current_cost
        /\ (n_iterations >= 0 /\ ~LoopRuns /\ error = "none")
              => Len(cost_history) = n_iterations + 1

\* C6 witness: the search returned after two iterations, and the last entry of
\* the history is the cost of a current colouring that is worse than the best.
C6_Witness ==
    /\ pc = "returned"
    /\ n_iterations = 2
    /\ Len(cost_history) = 3
    /\ cost_history[3] = current_cost
    /\ current_cost > best_cost

\* The four nodes of K4 have pairwise different colours.
PairwiseDistinct(coloring) ==
    \A u \in DOMAIN coloring, v \in DOMAIN coloring :
        u # v => coloring[u] # coloring[v]

IdleIteration ==
    /\ SAIterate
    /\ current_solution' = current_solution
    /\ best_solution' = best_solution

IdleIterationIsEnabled ==
    (pc = "sa_loop" /\ LoopRuns /\ temperature[1] > 0 /\ G_nodes # {})
    => ENABLED IdleIteration

C8_ExtremeProbabilities ==
    (pc = "gen_done" /\ n_nodes >= 0) =>
        /\ edge_probability = 0 => G_edges = {}
        /\ edge_probability = ProbDen => G_edges = AllPairs(n_nodes)

\* C8 witness: generate_random_graph(3, 1) returned the triangle.
C8_Witness ==
    /\ pc = "gen_done"
    /\ n_nodes = 3
    /\ edge_probability = ProbDen
    /\ Cardinality(G_edges) = 3

\* C9: in an iteration with temperature <= 0 (cooling_rate <= 0) nothing is
\* raised, the iteration completes, and the current colouring changes only for a
\* strictly improving candidate.
C9_NonPositiveTemperatureIsGreedy ==
    [][(/\ pc = "sa_loop"
        /\ LoopRuns
        /\ DOMAIN current_solution # {}
        /\ initial_temp > 0
        /\ cooling_rate[1] <= 0
        /\ temperature[1] <= 0)
       => /\ error' = "none"
          /\ iter' = iter + 1
          /\ (current_solution' # current_solution
                => current_cost' < current_cost)]_vars

\* One iteration of one run.
IterationStep == pc = "sa_loop" /\ pc' = "sa_loop" /\ iter' = iter + 1

\* C10: within one run best_cost never increases; best is replaced only by an
\* accepted candidate whose cost is strictly lower than the previous best_cost,
\* and an accepted candidate of equal or higher cost leaves best and best_cost.
C10_BestCostNonIncreasing ==
    [][IterationStep =>
         /\ best_cost' <= best_cost
         /\ (best_solution' # best_solution \/ best_cost' # best_cost)
               => /\ current_cost' < best_cost
                  /\ best_solution' = current_solution'
                  /\ best_cost' = current_cost'
         /\ current_cost' >= best_cost
               => (best_solution' = best_solution /\ best_cost' = best_cost)]_vars

\* C10 witness: after two iterations the best improved on the initial colouring
\* and the current colouring has moved away from it to an equal or higher cost.
C10_Witness ==
    /\ pc = "sa_loop"
    /\ iter = 2
    /\ best_cost < cost_history[1]
    /\ current_solution # best_solution
    /\ current_cost >= best_cost

\* The candidates of the iteration about to run: the node and the colour drawn.
Candidates == (DOMAIN current_solution) \X ColorRange(n_colors)

CandidateCost(c) == cost(G_edges, neighbor(current_solution, c[1], c[2]))

\* C11: in an iteration with temperature > 0 a candidate whose cost is lower
\* than or equal to current_cost is accepted whatever the draw is: the iteration
\* raises nothing and cannot end with a current colouring other than the
\* candidate.
C11_NonWorseningAlwaysAccepted ==
    (pc = "sa_loop" /\ LoopRuns /\ temperature[1] > 0) =>
        \A c \in Candidates, drawIsBelow \in BOOLEAN :
            CandidateCost(c) <= current_cost =>
                /\ Accepts(CandidateCost(c), current_cost, temperature, drawIsBelow)
                /\ ENABLED SAIterateWith(c[1], c[2], drawIsBelow)
                /\ ~ENABLED (/\ SAIterateWith(c[1], c[2], drawIsBelow)
                             /\ \/ current_solution' #
                                     neighbor(current_solution, c[1], c[2])
                                \/ current_cost' # CandidateCost(c))

\* C11 witness: at temperature > 0 an equal-cost candidate that changes the
\* colouring is up for the draw, and a worsening candidate can be rejected.
C11_Witness ==
    /\ pc = "sa_loop"
    /\ LoopRuns
    /\ temperature[1] > 0
    /\ \E c \in Candidates :
         /\ CandidateCost(c) = current_cost
         /\ neighbor(current_solution, c[1], c[2]) # current_solution
    /\ \E c \in Candidates :
         /\ CandidateCost(c) > current_cost
         /\ ENABLED (/\ SAIterateWith(c[1], c[2], FALSE)
                     /\ current_solution' = current_solution)

\* C12: the budgets are tried in the order 1, 2, 3, ..., one run of
\* simulated_annealing per budget: the i-th run has budget i, every run but the
\* last has ended with best_cost > 0, and when find_optimal_coloring returns
\* n_colors = k exactly k runs were made and the k-th ended with best_cost = 0.
C12_BudgetsInOrderOneRunEach ==
    /\ \A i \in 1 .. Len(runs) :
         /\ runs[i].budget = i
         /\ i < Len(runs) => runs[i].result = "nonzero"
    /\ pc \in {"sa_loop", "raised"} =>
          (Len(runs) = n_colors /\ runs[Len(runs)].result = "running")
    /\ pc = "sa_init" => Len(runs) = n_colors - 1
    /\ pc = "returned" =>
          /\ Len(runs) = n_colors
          /\ runs[n_colors].result = "zero"
          /\ best_cost = 0

\* C12 witness: the search returned n_colors = 3 after three runs.
C12_Witness ==
    /\ pc = "returned"
    /\ n_colors = 3
    /\ Len(runs) = 3
    /\ runs[2].result = "nonzero"

\* C13: for a colouring C with a non-empty domain and k >= 1, neighbor(C, k) has
\* the domain of C, differs from C in at most one node (the one drawn), gives
\* that node a colour of [0, k), and leaves C itself as it was: an iteration
\* that rejects the candidate ends with the current colouring unchanged.
C13_NeighborChangesOneNode ==
    (pc = "sa_loop" /\ DOMAIN current_solution # {} /\ n_colors >= 1) =>
        \A c \in Candidates :
            LET C == current_solution
                N == neighbor(C, c[1], c[2])
            IN  /\ DOMAIN N = DOMAIN C
                /\ Cardinality({x \in DOMAIN C : N[x] # C[x]}) <= 1
                /\ \A x \in DOMAIN C : x # c[1] => N[x] = C[x]
                /\ N[c[1]] >= 0
                /\ N[c[1]] < n_colors
                /\ InputAfterNeighbor(C, c[1], c[2]) = C
                /\ (temperature[1] > 0 /\ CandidateCost(c) > current_cost)
                      => ~ENABLED (/\ SAIterateWith(c[1], c[2], FALSE)
                                   /\ current_solution' # C)

\* C13 witness: one draw of neighbor re-picks the node's colour and gives back an
\* equal colouring, another changes one node of a colouring of three nodes.
C13_Witness ==
    /\ pc = "sa_loop"
    /\ Cardinality(DOMAIN current_solution) = 3
    /\ n_colors = 3
    /\ \E c \in Candidates :
         neighbor(current_solution, c[1], c[2]) = current_solution
    /\ \E c \in Candidates :
         Cardinality({x \in DOMAIN current_solution :
             neighbor(current_solution, c[1], c[2])[x] # current_solution[x]}) = 1

\* C14: the cost_history find_optimal_coloring returns is the trace of the final
\* attempt alone: every attempt starts its history as the one-element list of
\* the cost of its own initial colouring, every iteration appends one entry to
\* it, and the return hands over the history of the run with the returned
\* n_colors as it is.
C14_HistoryIsFinalAttemptTrace ==
    [][/\ (pc = "sa_init" /\ pc' = "sa_loop")
            => cost_history' = <<cost(G_edges, current_solution')>>
       /\ IterationStep => cost_history' = Append(cost_history, current_cost')
       /\ (pc = "sa_loop" /\ pc' = "returned")
            => /\ cost_history' = cost_history
               /\ Len(cost_history') = iter + 1
               /\ runs'[Len(runs')].budget = n_colors'
               /\ n_colors' = n_colors]_vars

\* C14 witness: the search returned after a failed attempt with a smaller budget,
\* with a history that starts at the cost of an improper initial colouring.
C14_Witness ==
    /\ pc = "returned"
    /\ n_colors >= 2
    /\ Len(cost_history) = 3
    /\ cost_history[1] > 0

\* C15: a run with n_iterations = 0 makes no neighbour move and no acceptance
\* draw, raises nothing, and ends with best = its initial colouring, best_cost =
\* the cost of that colouring and cost_history = [that cost].
C15_ZeroIterationsReturnsInitial ==
    (InRun /\ n_iterations = 0) =>
        /\ iter = 0
        /\ error = "none"
        /\ ~ENABLED SAIterate
        /\ ~ENABLED SAEmptyChoice
        /\ ~ENABLED SAZeroDivision
        /\ ~ENABLED SAExpOverflow
        /\ best_solution = current_solution
        /\ best_solution \in InitialSolutions(G_nodes, n_colors)
        /\ best_cost = cost(G_edges, best_solution)
        /\ cost_history = <<cost(G_edges, best_solution)>>

\* C15 witness: with n_iterations = 0 the search returned the initial colouring
\* of its third run, a proper colouring of the triangle.
C15_Witness ==
    /\ pc = "returned"
    /\ n_iterations = 0
    /\ n_colors = 3
    /\ Cardinality(G_edges) = 3
    /\ cost_history = <<0>>

\* The edges whose two endpoints have the same colour.
Conflicts(edges, coloring) == {e \in edges : coloring[e[1]] = coloring[e[2]]}

\* C16: for the graph G and every colouring C that is total over its nodes,
\* cost(G, C) is the number of edges whose endpoints have the same colour, so it
\* is >= 0, and it is 0 exactly when C is a proper colouring of G.
C16_CostCountsConflicts ==
    pc = "sa_init" =>
        \A C \in InitialSolutions(G_nodes, n_colors) :
            /\ cost(G_edges, C) = Cardinality(Conflicts(G_edges, C))
            /\ cost(G_edges, C) >= 0
            /\ cost(G_edges, C) = 0
                  <=> (\A e \in G_edges : C[e[1]] # C[e[2]])

\* C16 witness: on the triangle with 3 colours one colouring costs 0, one costs 1
\* and one costs 3.
C16_Witness ==
    /\ pc = "sa_init"
    /\ Cardinality(G_edges) = 3
    /\ n_colors = 3
    /\ \E C \in InitialSolutions(G_nodes, n_colors) : cost(G_edges, C) = 0
    /\ \E C \in InitialSolutions(G_nodes, n_colors) : cost(G_edges, C) = 1
    /\ \E C \in InitialSolutions(G_nodes, n_colors) : cost(G_edges, C) = 3

\* C17: in every attempt (the temperature starts again at initial_temp for each
\* colour budget) the temperature after i completed iterations, which is the
\* one the acceptance test of iteration i uses, is initial_temp *
\* cooling_rate^i: every iteration, accepting or rejecting, multiplies it once.
C17_TemperatureIsGeometric ==
    InRun =>
        temperature = Rational(initial_temp * Power(cooling_rate[1], iter),
                               Power(cooling_rate[2], iter))

\* C17 witness: the second attempt (2 colours) after two iterations at rate
\* 1/2 from initial temperature 1, the second of which rejected its candidate
\* or accepted one of equal cost.
C17_Witness ==
    /\ pc = "sa_loop"
    /\ n_colors = 2
    /\ iter = 2
    /\ initial_temp = 1
    /\ cooling_rate = <<1, 2>>
    /\ temperature = <<1, 4>>
    /\ cost_history[2] = cost_history[3]

\* The least entry of a non-empty list of costs.
Minimum(history) ==
    CHOOSE m \in {history[i] : i \in DOMAIN history} :
        \A i \in DOMAIN history : m <= history[i]

\* A colouring that is total over the nodes of G with every colour in [0, k).
TotalColoring(coloring, k) ==
    /\ DOMAIN coloring = G_nodes
    /\ \A node \in G_nodes : coloring[node] \in ColorRange(k)

\* C19: after the initialisation of a run and after every iteration, whatever
\* was drawn: current_cost is the cost of current_solution, best_cost is the
\* cost of best_solution and the minimum of cost_history, and both solutions
\* are total over G's nodes with colours in [0, n_colors).
C19_RunInvariant ==
    InRun =>
        /\ current_cost = cost(G_edges, current_solution)
        /\ best_cost = cost(G_edges, best_solution)
        /\ best_cost = Minimum(cost_history)
        /\ TotalColoring(current_solution, n_colors)
        /\ TotalColoring(best_solution, n_colors)

\* C19 witness: after two iterations of a 2-colour attempt on a graph with
\* edges, the current colouring is worse than the best one, which is proper.
C19_Witness ==
    /\ pc = "sa_loop"
    /\ n_colors = 2
    /\ iter = 2
    /\ G_edges # {}
    /\ current_solution # best_solution
    /\ current_cost > best_cost
    /\ Len(cost_history) = 3
    /\ best_cost = 0

\* A click on "Run Algorithm" with at least one text that does not parse.
UnparsableClick == clicks' = clicks + 1 /\ ~FormParses(fields')

\* C18: when the text of one of the five entries does not parse as its type,
\* run_algorithm calls neither generate_random_graph nor find_optimal_coloring
\* (no call starts, and nothing of an earlier call changes), the result area
\* shows the error of the first failing conversion with "Please check your
\* inputs.", and the canvas keeps the widgets it had.
C18_UnparsableFieldIsReported ==
    [][UnparsableClick =>
          /\ pc' = "idle"
          /\ UNCHANGED <<genVars, paramVars, n_colors, saVars, runs, error>>
          /\ result_text'.head = "Error: "
          /\ result_text'.tail = "Please check your inputs."
          /\ result_text'.detail = ValueErrorOf(fields')
          /\ canvas' = canvas]_vars

\* C18 witness: the first click drew a figure; the second click, with a number
\* of nodes that is a real and no integer, reports the error under that figure.
C18_Witness ==
    /\ pc = "idle"
    /\ clicks = 2
    /\ fields.n_nodes = <<"2", ".", "0">>
    /\ FloatParses(fields.n_nodes)
    /\ result_text.head = "Error: "
    /\ result_text.detail = <<"int", <<"2", ".", "0">>>>
    /\ canvas # << >>
    /\ runs # << >>

====
